---- MODULE Spec2Model ----
(***************************************************************************)
(* Transaction core of the pharmacy dashboard: the point-of-sale page      *)
(* (frontend/app/(dashboard)/pos/page.tsx) and the purchase-orders page    *)
(* (frontend/app/(dashboard)/purchases/page.tsx).                          *)
(*                                                                         *)
(* Money.  unit_price is a whole number of PKR.  A line total carries the  *)
(* factor (1 - discount_percent/100), so total_price and subtotal are kept *)
(* in 1/100 PKR; discountAmount, taxAmount and grandTotal carry a second   *)
(* division by 100 and are kept in 1/10000 PKR.  All amounts are exact     *)
(* rationals in these fixed scales (the page rounds only when it prints).  *)
(***************************************************************************)
EXTENDS Integers, Sequences, FiniteSets, TLC

\* ---------------------------------------------------------------- bounds
MaxQty == 2             \* largest quantity the + button / addToCart may reach
MaxQuantityArg == 3     \* largest quantity handed to a cart operation
MaxSaleRequests == 2    \* process-sale requests issued in one run
MaxSearchInFlight == 2  \* medicine-search requests awaiting a response
MaxCustomerInFlight == 1 \* customer-search requests awaiting a response
MaxPurchaseRequests == 2 \* receive and status-update requests sent in one run
MaxFetchInFlight == 1   \* purchase-list requests awaiting a response
MaxItems == 1           \* items of a new purchase order
MaxCreateRequests == 1  \* create-purchase requests sent in one run

\* ------------------------------------------------------- program constants
TAX_PERCENTAGE == 18
PAYMENT_METHODS == {"cash", "card", "mobile"}

\* ------------------------------------------------------ external inputs
\* Medicines the backend can return from a search (id, unit_price in PKR).
Catalog == { [id |-> 1, unit_price |-> 100], [id |-> 2, unit_price |-> 50] }
MedicineIds == { m.id : m \in Catalog }
\* An id that names no medicine of any cart in the model.
AbsentId == 9
\* Values typed into the search box, and what the backend answers for them.
QueryInputs == { "", "pa" }
SearchData(query) ==
    IF query = "pa" THEN { m \in Catalog : m.id = 1 }
    ELSE IF query = "ce" THEN { m \in Catalog : m.id = 2 }
    ELSE {}
\* Values typed where one search overtakes another.
RaceQueryInputs == { "", "pa", "ce" }
\* Customers the backend can return, and the strings the page stores for them.
CustomerIds == { 1 }
CustomerQueryInputs == { "", "al" }
CustomerData(query) == IF query = "al" THEN CustomerIds ELSE {}
\* `${customer.name} (${customer.phone})`, the text put in the box on selection.
CustomerLabel(c) == "Ali (0300)"
\* customer.id.toString() and parseInt(customerId) on the ids of the model.
toString(n) == IF n = 1 THEN "1" ELSE "0"
parseInt(s) == IF s = "1" THEN 1 ELSE 0
NullId == 0
\* Values typed into the cart-discount field (parseFloat(value) || 0).
DiscountInputs == { 0, 150 }
\* Arguments a caller may hand to updateCartItem.
QuantityArgs == 0..MaxQuantityArg
DiscountPercentArgs == { 0 - 5, 0, 10, 150 }
\* Payment-method buttons pressed on the page.
PaymentInputs == { "cash", "card" }
\* Arguments a caller may hand to setDiscount.
CartDiscountArgs == { 0 - 10, 0, 5, 150 }

\* The statuses of a purchase order (type OrderStatus).
OrderStatus == { "pending", "ordered", "received", "cancelled", "partial" }
\* The order the backend holds: its id, and its items with the ordered quantity.
OrderId == 1
OrderItems == << [ id |-> 1, quantity |-> 10 ], [ id |-> 2, quantity |-> 5 ] >>
ItemIds == { OrderItems[k].id : k \in 1..Len(OrderItems) }
OrderedQuantity(itemId) ==
    LET k == CHOOSE k \in 1..Len(OrderItems) : OrderItems[k].id = itemId
    IN  OrderItems[k].quantity
\* The statuses the order may have when the page is opened.
InitialStatuses == { "pending", "ordered" }
\* parseInt(e.target.value) || 0 for the values typed into the Received
\* Quantity field of an item.
ReceiveInputs(itemId) == IF itemId = 1 THEN { 0, 11 } ELSE { 0, 3 }
\* What the user answers to a confirm() dialog.
ConfirmAnswers == { TRUE, FALSE }

\* The form of a new purchase order, once fetchSuppliers and fetchMedicines have
\* answered: the suppliers and the medicines its two selects offer.
Suppliers == { 1 }
OrderMedicines == { 1 }
\* The value of a select: "" for its placeholder option, else the id chosen.
SupplierChoices == { "" } \cup { toString(supplier) : supplier \in Suppliers }
MedicineChoices == { "" } \cup { toString(medicine) : medicine \in OrderMedicines }
\* What the Qty and Unit Cost fields (type="number") hand to onChange: "" for
\* an emptied field or text that is no number, else the number as typed.
ItemQuantityInputs == { "", "0", "-3" }
UnitCostInputs == { "", "-5", "10" }

\* ----------------------------------------------------------------- state
VARIABLES
    searchQuery, searchResults, loading,          \* medicine search
    cart,                                         \* CartItem[]
    customerId, customerSearch, customerSearchResults,   \* customer selection
    paymentMethod, discount,
    processing, success, receiptNumber,
    subtotal, discountAmount, taxAmount, grandTotal,   \* values of the render
    searchTimer, searchInFlight,                  \* debounce timer, requests
    searchLatestPending,   \* the search request issued last awaits its response
    customerTimer, customerInFlight,
    saleInFlight, saleRequests,                   \* process-sale requests
    clearTimers,                                  \* pending setTimeout(clearCart)
    lastEvent       \* the cart, discount or sale handler that ran last (NoEvent
                    \* after any other), the id it was given and the quantity
                    \* the line of that id had before it ran

\* The purchase-orders page, and the backend's record of the order it shows.
VARIABLES
    serverOrder,                  \* the backend's record of the order: id, status
    purchases, purchasesLoading,  \* Purchase[] of the page, its loading flag
    showReceiveModal, showDetailModal,
    selectedPurchase,             \* << >> for null, else << the copy held >>
    receiveQuantities,            \* Record<string, number>
    receiveInFlight, statusInFlight, fetchInFlight,   \* requests awaiting a response
    purchaseRequests    \* the number of receive and status-update requests sent

\* The form of a new purchase order (Create Purchase Order), and what the
\* handler that ran last told the user.
VARIABLES
    showAddModal,
    newPurchase,      \* supplier_id and items, the fields as strings
    newItem,          \* medicine_id, quantity, unit_cost, as strings
    createInFlight,   \* the purchaseData of the create requests awaiting a response
    createRequests,   \* the number of create requests sent
    alertShown        \* the text of the alert() of the handler that ran last, "" if none

createVars == << showAddModal, newPurchase, newItem, createInFlight, createRequests >>

purchaseVars == << serverOrder, purchases, purchasesLoading, showReceiveModal,
                   showDetailModal, selectedPurchase, receiveQuantities,
                   receiveInFlight, statusInFlight, fetchInFlight, purchaseRequests >>

posVars == << searchQuery, searchResults, loading, cart, customerId, customerSearch,
              customerSearchResults, paymentMethod, discount, processing,
              success, receiptNumber, subtotal, discountAmount, taxAmount,
              grandTotal, searchTimer, searchInFlight, searchLatestPending, customerTimer,
              customerInFlight, saleInFlight, saleRequests, clearTimers, lastEvent >>

vars == << searchQuery, searchResults, loading, cart, customerId, customerSearch,
           customerSearchResults, paymentMethod, discount, processing,
           success, receiptNumber, subtotal, discountAmount, taxAmount,
           grandTotal, searchTimer, searchInFlight, searchLatestPending, customerTimer,
           customerInFlight, saleInFlight, saleRequests, clearTimers, lastEvent,
           purchaseVars, createVars, alertShown >>

searchVars == << searchQuery, searchResults, loading, searchTimer, searchInFlight,
                searchLatestPending >>
customerVars == << customerSearch, customerSearchResults, customerTimer, customerInFlight >>
submitVars == << processing, receiptNumber, saleInFlight, saleRequests, clearTimers >>

\* The history record written by the handlers that touch neither the cart,
\* the cart discount nor a sale (search, customer selection, payment method).
NoEvent == [ op |-> "none", id |-> 0, before |-> 0 ]

\* ------------------------------------------------------------ pure parts
Max(a, b) == IF a > b THEN a ELSE b

\* quantity * unit_price * (1 - discount_percent / 100), in 1/100 PKR.
LineTotal(quantity, unit_price, discount_percent) ==
    quantity * unit_price * (100 - discount_percent)

RECURSIVE SumTotalPrice(_)
SumTotalPrice(c) ==
    IF c = << >> THEN 0 ELSE Head(c).total_price + SumTotalPrice(Tail(c))

\* cart.reduce((sum, item) => sum + item.total_price, 0), in 1/100 PKR.
Subtotal(c) == SumTotalPrice(c)
\* (subtotal * discount) / 100, in 1/10000 PKR.
DiscountAmount(sub, d) == sub * d
\* (subtotal * tax) / 100, in 1/10000 PKR.
TaxAmount(sub) == sub * TAX_PERCENTAGE
\* subtotal - discountAmount + taxAmount, in 1/10000 PKR.
GrandTotal(sub, da, ta) == sub * 100 - da + ta

IndexOf(c, medicineId) ==
    IF \E i \in 1..Len(c) : c[i].medicine_id = medicineId
    THEN CHOOSE i \in 1..Len(c) :
            /\ c[i].medicine_id = medicineId
            /\ \A j \in 1..(i - 1) : c[j].medicine_id # medicineId
    ELSE 0

InCart(c, medicineId) == IndexOf(c, medicineId) # 0

\* The quantity of the line of medicineId, 0 when the cart has no such line.
QuantityOf(c, medicineId) ==
    IF InCart(c, medicineId) THEN c[IndexOf(c, medicineId)].quantity ELSE 0

\* addToCart without the lookup of an existing line: always a new line.
addToCartAppend(c, medicine) ==
    Append(c, [ medicine_id |-> medicine.id,
                quantity |-> 1,
                unit_price |-> medicine.unit_price,
                discount_percent |-> 0,
                total_price |-> medicine.unit_price * 100 ])

\* addToCart: the new value of cart.
addToCart(c, medicine) ==
    IF InCart(c, medicine.id)
    THEN [ i \in 1..Len(c) |->
             IF c[i].medicine_id = medicine.id
             THEN [ c[i] EXCEPT
                      !.quantity = c[i].quantity + 1,
                      !.total_price = LineTotal(c[i].quantity + 1, c[i].unit_price,
                                                c[i].discount_percent) ]
             ELSE c[i] ]
    ELSE Append(c, [ medicine_id |-> medicine.id,
                     quantity |-> 1,
                     unit_price |-> medicine.unit_price,
                     discount_percent |-> 0,
                     total_price |-> medicine.unit_price * 100 ])

\* updateCartItem recomputing total_price only when the quantity is passed.
updateCartItemQuantityOnly(c, medicineId, updates) ==
    [ i \in 1..Len(c) |->
        IF c[i].medicine_id = medicineId
        THEN LET updated == [ f \in DOMAIN c[i] |->
                                IF f \in DOMAIN updates THEN updates[f] ELSE c[i][f] ]
             IN  IF "quantity" \in DOMAIN updates
                 THEN [ updated EXCEPT
                          !.total_price = LineTotal(updated.quantity, updated.unit_price,
                                                    updated.discount_percent) ]
                 ELSE updated
        ELSE c[i] ]

\* updateCartItem: the new value of cart.  updates is a partial CartItem,
\* a function whose domain is the set of fields the caller passed.
updateCartItem(c, medicineId, updates) ==
    [ i \in 1..Len(c) |->
        IF c[i].medicine_id = medicineId
        THEN LET updated == [ f \in DOMAIN c[i] |->
                                IF f \in DOMAIN updates THEN updates[f] ELSE c[i][f] ]
             IN  IF "quantity" \in DOMAIN updates \/ "discount_percent" \in DOMAIN updates
                 THEN [ updated EXCEPT
                          !.total_price = LineTotal(updated.quantity, updated.unit_price,
                                                    updated.discount_percent) ]
                 ELSE updated
        ELSE c[i] ]

\* removeFromCart by position, cart.splice(cart.findIndex(...), 1): an id that
\* is absent gives position -1, and splice(-1, 1) drops the last line.
removeFromCartSplice(c, medicineId) ==
    IF InCart(c, medicineId)
    THEN SubSeq(c, 1, IndexOf(c, medicineId) - 1)
           \o SubSeq(c, IndexOf(c, medicineId) + 1, Len(c))
    ELSE SubSeq(c, 1, Len(c) - 1)

\* removeFromCart: the new value of cart.
removeFromCart(c, medicineId) ==
    SelectSeq(c, LAMBDA item : item.medicine_id # medicineId)

\* The - button without Math.max(1, ...).
MinusQuantityUnclamped(item) == item.quantity - 1
\* The quantity the - button asks for: Math.max(1, item.quantity - 1).
MinusQuantity(item) == Max(1, item.quantity - 1)
\* The quantity the + button asks for: item.quantity + 1.
PlusQuantity(item) == item.quantity + 1

\* A render that keeps the totals of the previous render unless the cart changed.
RenderCached ==
    IF cart' = cart
    THEN UNCHANGED << subtotal, discountAmount, taxAmount, grandTotal >>
    ELSE /\ subtotal' = Subtotal(cart')
         /\ discountAmount' = DiscountAmount(subtotal', discount')
         /\ taxAmount' = TaxAmount(subtotal')
         /\ grandTotal' = GrandTotal(subtotal', discountAmount', taxAmount')

\* A render that taxes the discounted subtotal.
RenderTaxAfterDiscount ==
    /\ subtotal' = Subtotal(cart')
    /\ discountAmount' = DiscountAmount(subtotal', discount')
    /\ taxAmount' = ((subtotal' * 100 - discountAmount') * TAX_PERCENTAGE) \div 100
    /\ grandTotal' = GrandTotal(subtotal', discountAmount', taxAmount')

\* The render that follows every state change recomputes the four totals.
Render ==
    /\ subtotal' = Subtotal(cart')
    /\ discountAmount' = DiscountAmount(subtotal', discount')
    /\ taxAmount' = TaxAmount(subtotal')
    /\ grandTotal' = GrandTotal(subtotal', discountAmount', taxAmount')

\* ------------------------------------------------------------------ Init
\* The point-of-sale page after its mount.
PosInit ==
    /\ searchQuery = ""
    /\ searchResults = {}
    /\ loading = FALSE
    /\ cart = << >>
    /\ customerId = ""
    /\ customerSearch = ""
    /\ customerSearchResults = {}
    /\ paymentMethod = "cash"
    /\ discount = 0
    /\ processing = FALSE
    /\ success = FALSE
    /\ receiptNumber = 0
    /\ subtotal = 0
    /\ discountAmount = 0
    /\ taxAmount = 0
    /\ grandTotal = 0
    /\ searchTimer = TRUE
    /\ searchInFlight = << >>
    /\ searchLatestPending = FALSE
    /\ customerTimer = TRUE
    /\ customerInFlight = << >>
    /\ saleInFlight = << >>
    /\ saleRequests = 0
    /\ clearTimers = 0
    /\ lastEvent = [ op |-> "mount", id |-> 0, before |-> 0 ]

\* The purchases page after its mount effect: fetchPurchases() is under way.
PurchasesInit ==
    /\ serverOrder \in { [ id |-> OrderId, status |-> st ] : st \in InitialStatuses }
    /\ purchases = << >>
    /\ purchasesLoading = TRUE
    /\ showReceiveModal = FALSE
    /\ showDetailModal = FALSE
    /\ selectedPurchase = << >>
    /\ receiveQuantities = << >>
    /\ receiveInFlight = << >>
    /\ statusInFlight = << >>
    /\ fetchInFlight = 1
    /\ purchaseRequests = 0
    /\ showAddModal = FALSE
    /\ newPurchase = [ supplier_id |-> "", items |-> << >> ]
    /\ newItem = [ medicine_id |-> "", quantity |-> "1", unit_cost |-> "" ]
    /\ createInFlight = << >>
    /\ createRequests = 0
    /\ alertShown = ""

\* Both pages mounted, the order as the create request left it.
Init ==
    /\ PosInit
    /\ PurchasesInit
    /\ serverOrder.status = "pending"

\* Removes the i-th element of a sequence.
RemoveAt(s, i) == SubSeq(s, 1, i - 1) \o SubSeq(s, i + 1, Len(s))

\* --------------------------------------------------------- medicine search
\* onChange of the search box: setSearchQuery; the effect restarts the timer.
TypeSearch(q) ==
    /\ q # searchQuery
    /\ searchQuery' = q
    /\ searchTimer' = TRUE
    /\ UNCHANGED << purchaseVars, createVars >>
    /\ alertShown' = ""
    /\ lastEvent' = NoEvent
    /\ UNCHANGED << searchResults, loading, searchInFlight, searchLatestPending, cart, customerId,
                    paymentMethod, discount, success, subtotal, discountAmount,
                    taxAmount, grandTotal >>
    /\ UNCHANGED << customerVars, submitVars >>

\* The 300 ms timer fires: searchMedicines(searchQuery) up to its await.
SearchTimerFires ==
    /\ searchTimer
    /\ searchTimer' = FALSE
    /\ IF Len(searchQuery) < 2
       THEN /\ searchResults' = {}
            /\ UNCHANGED << loading, searchInFlight, searchLatestPending >>
       ELSE /\ Len(searchInFlight) < MaxSearchInFlight
            /\ searchLatestPending' = TRUE
            /\ loading' = TRUE
            /\ searchInFlight' = Append(searchInFlight, searchQuery)
            /\ UNCHANGED searchResults
    /\ UNCHANGED << purchaseVars, createVars >>
    /\ alertShown' = ""
    /\ lastEvent' = NoEvent
    /\ UNCHANGED << searchQuery, cart, customerId, paymentMethod, discount, success,
                    subtotal, discountAmount, taxAmount, grandTotal >>
    /\ UNCHANGED << customerVars, submitVars >>

\* searchMedicines after its await, the request having succeeded.
SearchSucceeds(i) ==
    /\ i \in 1..Len(searchInFlight)
    /\ searchResults' = SearchData(searchInFlight[i])
    /\ loading' = FALSE
    /\ searchInFlight' = RemoveAt(searchInFlight, i)
    /\ searchLatestPending' = (searchLatestPending /\ i # Len(searchInFlight))
    /\ UNCHANGED << purchaseVars, createVars >>
    /\ alertShown' = ""
    /\ lastEvent' = NoEvent
    /\ UNCHANGED << searchQuery, searchTimer, cart, customerId, paymentMethod,
                    discount, success, subtotal, discountAmount, taxAmount, grandTotal >>
    /\ UNCHANGED << customerVars, submitVars >>

\* searchMedicines after its await, the request having failed (catch).
SearchFails(i) ==
    /\ i \in 1..Len(searchInFlight)
    /\ searchResults' = {}
    /\ loading' = FALSE
    /\ searchInFlight' = RemoveAt(searchInFlight, i)
    /\ searchLatestPending' = (searchLatestPending /\ i # Len(searchInFlight))
    /\ UNCHANGED << purchaseVars, createVars >>
    /\ alertShown' = ""
    /\ lastEvent' = NoEvent
    /\ UNCHANGED << searchQuery, searchTimer, cart, customerId, paymentMethod,
                    discount, success, subtotal, discountAmount, taxAmount, grandTotal >>
    /\ UNCHANGED << customerVars, submitVars >>

\* --------------------------------------------------------- customer search
TypeCustomerSearch(q) ==
    /\ q # customerSearch
    /\ customerSearch' = q
    /\ customerTimer' = TRUE
    /\ UNCHANGED << purchaseVars, createVars >>
    /\ alertShown' = ""
    /\ lastEvent' = NoEvent
    /\ UNCHANGED << customerSearchResults, customerInFlight, cart, customerId,
                    paymentMethod, discount, success, subtotal, discountAmount,
                    taxAmount, grandTotal >>
    /\ UNCHANGED << searchVars, submitVars >>

CustomerTimerFires ==
    /\ customerTimer
    /\ customerTimer' = FALSE
    /\ IF Len(customerSearch) < 2
       THEN /\ customerSearchResults' = {}
            /\ UNCHANGED customerInFlight
       ELSE /\ Len(customerInFlight) < MaxCustomerInFlight
            /\ customerInFlight' = Append(customerInFlight, customerSearch)
            /\ UNCHANGED customerSearchResults
    /\ UNCHANGED << purchaseVars, createVars >>
    /\ alertShown' = ""
    /\ lastEvent' = NoEvent
    /\ UNCHANGED << customerSearch, cart, customerId, paymentMethod, discount, success,
                    subtotal, discountAmount, taxAmount, grandTotal >>
    /\ UNCHANGED << searchVars, submitVars >>

CustomerSearchSucceeds(i) ==
    /\ i \in 1..Len(customerInFlight)
    /\ customerSearchResults' = CustomerData(customerInFlight[i])
    /\ customerInFlight' = RemoveAt(customerInFlight, i)
    /\ UNCHANGED << purchaseVars, createVars >>
    /\ alertShown' = ""
    /\ lastEvent' = NoEvent
    /\ UNCHANGED << customerSearch, customerTimer, cart, customerId, paymentMethod,
                    discount, success, subtotal, discountAmount, taxAmount, grandTotal >>
    /\ UNCHANGED << searchVars, submitVars >>

CustomerSearchFails(i) ==
    /\ i \in 1..Len(customerInFlight)
    /\ customerSearchResults' = {}
    /\ customerInFlight' = RemoveAt(customerInFlight, i)
    /\ UNCHANGED << purchaseVars, createVars >>
    /\ alertShown' = ""
    /\ lastEvent' = NoEvent
    /\ UNCHANGED << customerSearch, customerTimer, cart, customerId, paymentMethod,
                    discount, success, subtotal, discountAmount, taxAmount, grandTotal >>
    /\ UNCHANGED << searchVars, submitVars >>

\* onClick of a row of the customer dropdown.
SelectCustomer(c) ==
    /\ c \in customerSearchResults
    /\ customerId' = toString(c)
    /\ customerSearch' = CustomerLabel(c)
    /\ customerTimer' = (customerTimer \/ customerSearch' # customerSearch)
    /\ customerSearchResults' = {}
    /\ UNCHANGED << purchaseVars, createVars >>
    /\ alertShown' = ""
    /\ lastEvent' = NoEvent
    /\ UNCHANGED << customerInFlight, cart, paymentMethod, discount, success,
                    subtotal, discountAmount, taxAmount, grandTotal >>
    /\ UNCHANGED << searchVars, submitVars >>

\* ----------------------------------------------------------- cart handlers
\* addToCart(medicine): the whole handler.
AddToCartCall(medicine) ==
    /\ cart' = addToCart(cart, medicine)
    /\ searchQuery' = ""
    /\ searchResults' = {}
    /\ searchTimer' = (searchTimer \/ searchQuery # "")
    /\ UNCHANGED << purchaseVars, createVars >>
    /\ alertShown' = ""
    /\ lastEvent' = [ op |-> "addToCart", id |-> medicine.id,
                     before |-> QuantityOf(cart, medicine.id) ]
    /\ UNCHANGED << loading, searchInFlight, searchLatestPending, customerId,
                    paymentMethod, discount, success >>
    /\ UNCHANGED << customerVars, submitVars >>
    /\ Render

\* updateCartItem(medicineId, updates): the whole handler.
UpdateCartItemCall(op, medicineId, updates) ==
    /\ cart' = updateCartItem(cart, medicineId, updates)
    /\ UNCHANGED << purchaseVars, createVars >>
    /\ alertShown' = ""
    /\ lastEvent' = [ op |-> op, id |-> medicineId,
                     before |-> QuantityOf(cart, medicineId) ]
    /\ UNCHANGED << customerId, paymentMethod, discount, success >>
    /\ UNCHANGED << searchVars, customerVars, submitVars >>
    /\ Render

\* removeFromCart(medicineId): the whole handler.
RemoveFromCartCall(medicineId) ==
    /\ cart' = removeFromCart(cart, medicineId)
    /\ UNCHANGED << purchaseVars, createVars >>
    /\ alertShown' = ""
    /\ lastEvent' = [ op |-> "removeFromCart", id |-> medicineId,
                     before |-> QuantityOf(cart, medicineId) ]
    /\ UNCHANGED << customerId, paymentMethod, discount, success >>
    /\ UNCHANGED << searchVars, customerVars, submitVars >>
    /\ Render

\* onClick of a search result.
AddToCartClick(medicine) ==
    /\ medicine \in searchResults
    /\ InCart(cart, medicine.id) => cart[IndexOf(cart, medicine.id)].quantity < MaxQty
    /\ AddToCartCall(medicine)

\* onClick of the + button of line i.
PlusClick(i) ==
    /\ i \in 1..Len(cart)
    /\ cart[i].quantity < MaxQty
    /\ UpdateCartItemCall("plus", cart[i].medicine_id, [ quantity |-> PlusQuantity(cart[i]) ])

\* onClick of the - button of line i.
MinusClick(i) ==
    /\ i \in 1..Len(cart)
    /\ UpdateCartItemCall("minus", cart[i].medicine_id, [ quantity |-> MinusQuantity(cart[i]) ])

\* onClick of the trash button of line i.
RemoveClick(i) ==
    /\ i \in 1..Len(cart)
    /\ RemoveFromCartCall(cart[i].medicine_id)

\* clearCart without setDiscount(0).
clearCartKeepsDiscount ==
    /\ cart' = << >>
    /\ UNCHANGED discount
    /\ customerId' = ""
    /\ customerSearch' = ""
    /\ customerTimer' = (customerTimer \/ customerSearch # "")
    /\ paymentMethod' = "cash"
    /\ success' = FALSE

\* clearCart: the six setters.
clearCart ==
    /\ cart' = << >>
    /\ discount' = 0
    /\ customerId' = ""
    /\ customerSearch' = ""
    /\ customerTimer' = (customerTimer \/ customerSearch # "")
    /\ paymentMethod' = "cash"
    /\ success' = FALSE

\* onClick of Clear Cart, rendered only while the cart has lines.
ClearCartClick ==
    /\ Len(cart) > 0
    /\ clearCart
    /\ UNCHANGED << purchaseVars, createVars >>
    /\ alertShown' = ""
    /\ lastEvent' = [ op |-> "clearCart", id |-> 0, before |-> 0 ]
    /\ UNCHANGED << customerSearchResults, customerInFlight >>
    /\ UNCHANGED << searchVars, submitVars >>
    /\ Render

\* onClick of Cancel Transaction.
CancelTransactionClick ==
    /\ clearCart
    /\ UNCHANGED << purchaseVars, createVars >>
    /\ alertShown' = ""
    /\ lastEvent' = [ op |-> "cancelTransaction", id |-> 0, before |-> 0 ]
    /\ UNCHANGED << customerSearchResults, customerInFlight >>
    /\ UNCHANGED << searchVars, submitVars >>
    /\ Render

\* onChange of the discount field: setDiscount(parseFloat(value) || 0).
SetDiscount(d) ==
    /\ d # discount
    /\ discount' = d
    /\ UNCHANGED << purchaseVars, createVars >>
    /\ alertShown' = ""
    /\ lastEvent' = [ op |-> "setDiscount", id |-> 0, before |-> 0 ]
    /\ UNCHANGED << cart, customerId, paymentMethod, success >>
    /\ UNCHANGED << searchVars, customerVars, submitVars >>
    /\ Render

\* onClick of a payment-method button.
SetPaymentMethod(method) ==
    /\ paymentMethod' = method
    /\ UNCHANGED << purchaseVars, createVars >>
    /\ alertShown' = ""
    /\ lastEvent' = NoEvent
    /\ UNCHANGED << cart, customerId, discount, success,
                    subtotal, discountAmount, taxAmount, grandTotal >>
    /\ UNCHANGED << searchVars, customerVars, submitVars >>

\* --------------------------------------------------------- sale submission
\* The Complete Sale button disabled on an empty cart only.
CompleteSaleDisabledEmptyOnly == Len(cart) = 0

\* disabled={processing || cart.length === 0} of the Complete Sale button.
CompleteSaleDisabled == processing \/ Len(cart) = 0

\* response.data.receipt_number: what the backend answers for a request.
ReceiptNumber(saleData) == 1

\* The saleData object processSale builds.
SaleData ==
    [ customer_id |-> IF customerId # "" THEN parseInt(customerId) ELSE NullId,
      items |-> [ i \in 1..Len(cart) |->
                    [ medicine_id |-> cart[i].medicine_id,
                      quantity |-> cart[i].quantity,
                      discount_percent |-> cart[i].discount_percent ] ],
      discount_amount |-> discountAmount,
      tax_amount |-> taxAmount,
      payment_method |-> paymentMethod ]

\* processSale with the cart.length === 0 test left out.
processSaleNoEmptyCheck ==
    /\ saleRequests < MaxSaleRequests
    /\ processing' = TRUE
    /\ saleInFlight' = Append(saleInFlight, SaleData)
    /\ saleRequests' = saleRequests + 1
    /\ UNCHANGED << purchaseVars, createVars >>
    /\ alertShown' = ""
    /\ lastEvent' = [ op |-> "processSale", id |-> 0, before |-> 0 ]
    /\ UNCHANGED << cart, customerId, paymentMethod, discount, success, receiptNumber,
                    clearTimers, subtotal, discountAmount, taxAmount, grandTotal >>
    /\ UNCHANGED << searchVars, customerVars >>

\* processSale up to its await: on an empty cart the alert and the return.
processSale ==
    /\ IF Len(cart) = 0
       THEN /\ alertShown' = "Cart is empty!"
            /\ UNCHANGED << processing, saleInFlight, saleRequests >>
       ELSE /\ saleRequests < MaxSaleRequests
            /\ processing' = TRUE
            /\ saleInFlight' = Append(saleInFlight, SaleData)
            /\ saleRequests' = saleRequests + 1
            /\ alertShown' = ""
    /\ UNCHANGED << purchaseVars, createVars >>
    /\ lastEvent' = [ op |-> "processSale", id |-> 0, before |-> 0 ]
    /\ UNCHANGED << cart, customerId, paymentMethod, discount, success, receiptNumber,
                    clearTimers, subtotal, discountAmount, taxAmount, grandTotal >>
    /\ UNCHANGED << searchVars, customerVars >>

\* onClick of Complete Sale.
ProcessSaleClick ==
    /\ ~CompleteSaleDisabled
    /\ processSale

\* processSale after its await, the request having succeeded.
SaleSucceeds(i) ==
    /\ i \in 1..Len(saleInFlight)
    /\ saleInFlight' = RemoveAt(saleInFlight, i)
    /\ receiptNumber' = ReceiptNumber(saleInFlight[i])
    /\ success' = TRUE
    /\ clearTimers' = clearTimers + 1
    /\ processing' = FALSE
    /\ UNCHANGED << purchaseVars, createVars >>
    /\ alertShown' = ""
    /\ lastEvent' = [ op |-> "saleSucceeds", id |-> 0, before |-> 0 ]
    /\ UNCHANGED << cart, customerId, paymentMethod, discount, saleRequests,
                    subtotal, discountAmount, taxAmount, grandTotal >>
    /\ UNCHANGED << searchVars, customerVars >>

\* A catch branch that resets the checkout as a finished sale does.
SaleFailedClears ==
    /\ cart' = << >>
    /\ discount' = 0
    /\ customerId' = ""
    /\ paymentMethod' = "cash"
    /\ UNCHANGED << customerSearch, customerTimer, success, saleRequests >>

\* What the catch branch of processSale does to the cart and the selections.
SaleFailedEffects ==
    UNCHANGED << cart, customerId, customerSearch, customerTimer, paymentMethod,
                 discount, success, saleRequests >>

\* processSale after its await, the request having failed (catch, finally).
SaleFails(i) ==
    /\ i \in 1..Len(saleInFlight)
    /\ saleInFlight' = RemoveAt(saleInFlight, i)
    /\ processing' = FALSE
    /\ SaleFailedEffects
    /\ UNCHANGED << purchaseVars, createVars >>
    /\ alertShown' = "Sale processing failed"
    /\ lastEvent' = [ op |-> "saleFails", id |-> 0, before |-> 0 ]
    /\ UNCHANGED << receiptNumber, clearTimers, customerSearchResults, customerInFlight >>
    /\ UNCHANGED searchVars
    /\ Render

\* The 5000 ms timer set by a successful sale fires: clearCart().
ClearTimerFires ==
    /\ clearTimers > 0
    /\ clearTimers' = clearTimers - 1
    /\ clearCart
    /\ UNCHANGED << purchaseVars, createVars >>
    /\ alertShown' = ""
    /\ lastEvent' = [ op |-> "clearTimer", id |-> 0, before |-> 0 ]
    /\ UNCHANGED << processing, receiptNumber, saleInFlight, saleRequests >>
    /\ UNCHANGED << customerSearchResults, customerInFlight >>
    /\ UNCHANGED searchVars
    /\ Render

\* ------------------------------------------------------------------- page
\* No debounce timer is pending and no search request awaits its response.
SearchSettled ==
    /\ ~searchTimer /\ searchInFlight = << >>
    /\ ~customerTimer /\ customerInFlight = << >>

\* The steps that carry a search to its end.
SearchStep ==
    \/ SearchTimerFires
    \/ \E i \in 1..MaxSearchInFlight : SearchSucceeds(i)
    \/ \E i \in 1..MaxSearchInFlight : SearchFails(i)
    \/ CustomerTimerFires
    \/ \E i \in 1..MaxCustomerInFlight : CustomerSearchSucceeds(i)
    \/ \E i \in 1..MaxCustomerInFlight : CustomerSearchFails(i)

\* The events of the checkout (the user's, the sale responses, the clear timer),
\* each taken once the searches have settled.
SettledTypeSearch(q) == SearchSettled /\ TypeSearch(q)
SettledTypeCustomerSearch(q) == SearchSettled /\ TypeCustomerSearch(q)
SettledSelectCustomer(c) == SearchSettled /\ SelectCustomer(c)
SettledAddToCartClick(m) == SearchSettled /\ AddToCartClick(m)
SettledPlusClick(i) == SearchSettled /\ PlusClick(i)
SettledMinusClick(i) == SearchSettled /\ MinusClick(i)
SettledRemoveClick(i) == SearchSettled /\ RemoveClick(i)
SettledClearCartClick == SearchSettled /\ ClearCartClick
SettledCancelTransactionClick == SearchSettled /\ CancelTransactionClick
SettledSetDiscount(d) == SearchSettled /\ SetDiscount(d)
SettledSetPaymentMethod(method) == SearchSettled /\ SetPaymentMethod(method)
SettledProcessSaleClick == SearchSettled /\ ProcessSaleClick
SettledSaleSucceeds(i) == SearchSettled /\ SaleSucceeds(i)
SettledSaleFails(i) == SearchSettled /\ SaleFails(i)
SettledClearTimerFires == SearchSettled /\ ClearTimerFires

CheckoutStep ==
    \/ \E q \in QueryInputs : SettledTypeSearch(q)
    \/ \E q \in CustomerQueryInputs : SettledTypeCustomerSearch(q)
    \/ \E c \in CustomerIds : SettledSelectCustomer(c)
    \/ \E m \in Catalog : SettledAddToCartClick(m)
    \/ \E i \in 1..Cardinality(Catalog) : SettledPlusClick(i)
    \/ \E i \in 1..Cardinality(Catalog) : SettledMinusClick(i)
    \/ \E i \in 1..Cardinality(Catalog) : SettledRemoveClick(i)
    \/ SettledClearCartClick
    \/ SettledCancelTransactionClick
    \/ \E d \in DiscountInputs : SettledSetDiscount(d)
    \/ \E method \in PaymentInputs : SettledSetPaymentMethod(method)
    \/ SettledProcessSaleClick
    \/ \E i \in 1..MaxSaleRequests : SettledSaleSucceeds(i)
    \/ \E i \in 1..MaxSaleRequests : SettledSaleFails(i)
    \/ SettledClearTimerFires

\* The point-of-sale page.  A search, once started, runs to its end before the
\* next checkout event is taken; the interleavings of typing, debounce timers
\* and search responses are not part of this specification.
Next ==
    \/ SearchStep
    \/ CheckoutStep

Spec == Init /\ [][Next]_vars

\* ------------------------------------------------- the medicine search
\* The search box alone: typing, the debounce timer and the responses of the
\* backend in any order; a click on a result adds it to the cart.
NextSearch ==
    \/ \E q \in RaceQueryInputs : TypeSearch(q)
    \/ SearchTimerFires
    \/ \E i \in 1..MaxSearchInFlight : SearchSucceeds(i)
    \/ \E i \in 1..MaxSearchInFlight : SearchFails(i)
    \/ \E m \in Catalog : AddToCartClick(m)

SpecSearch == Init /\ [][NextSearch]_vars

\* ------------------------------------------------- the cart operations
\* The cart operations taken as functions of their arguments: any medicine, any
\* id (in the cart or not), any partial update of quantity and discount_percent.
UpdateArgs ==
    [ quantity : QuantityArgs ] \cup [ discount_percent : DiscountPercentArgs ]
      \cup [ quantity : QuantityArgs, discount_percent : DiscountPercentArgs ]

CallAddToCart(medicine) ==
    /\ InCart(cart, medicine.id) =>
          cart[IndexOf(cart, medicine.id)].quantity < MaxQuantityArg
    /\ AddToCartCall(medicine)

CallUpdateCartItem(medicineId, updates) ==
    UpdateCartItemCall("updateCartItem", medicineId, updates)

CallRemoveFromCart(medicineId) == RemoveFromCartCall(medicineId)

CallClearCart ==
    /\ clearCart
    /\ UNCHANGED << purchaseVars, createVars >>
    /\ alertShown' = ""
    /\ lastEvent' = [ op |-> "clearCart", id |-> 0, before |-> 0 ]
    /\ UNCHANGED << customerSearchResults, customerInFlight >>
    /\ UNCHANGED << searchVars, submitVars >>
    /\ Render

CallSetDiscount(d) == SetDiscount(d)

NextCart ==
    \/ \E m \in Catalog : CallAddToCart(m)
    \/ \E id \in MedicineIds \cup { AbsentId } : \E u \in UpdateArgs :
          CallUpdateCartItem(id, u)
    \/ \E id \in MedicineIds \cup { AbsentId } : CallRemoveFromCart(id)
    \/ CallClearCart
    \/ \E d \in CartDiscountArgs : CallSetDiscount(d)

SpecCart == Init /\ [][NextCart]_vars

\* ------------------------------------------------- the sale submission
\* processSale called as a function, whatever the Complete Sale button shows,
\* on carts built and emptied by the cart operations.
CallProcessSale == processSale

\* addToCart on the carts the page can hold.
SubmitAddToCart(medicine) ==
    /\ QuantityOf(cart, medicine.id) < MaxQty
    /\ AddToCartCall(medicine)

NextSubmit ==
    \/ \E m \in SearchData("pa") : SubmitAddToCart(m)
    \/ \E m \in SearchData("pa") : CallRemoveFromCart(m.id)
    \/ CallProcessSale
    \/ \E i \in 1..MaxSaleRequests : SaleSucceeds(i)
    \/ \E i \in 1..MaxSaleRequests : SaleFails(i)
    \/ ClearTimerFires

SpecSubmit == Init /\ [][NextSubmit]_vars

\* ==================================================== purchase-orders page
\* ------------------------------------------------------------- the backend
\* The quantity a receive request carries for an item: the ordered quantity
\* where the request omits the item.
EffectiveQuantity(quantities, itemId) ==
    IF itemId \in DOMAIN quantities THEN quantities[itemId] ELSE OrderedQuantity(itemId)

\* The status the backend gives an order on a receive: received when every
\* item arrived in full, the status it had when nothing arrived, else partial.
DerivedStatus(order, quantities) ==
    IF \A it \in ItemIds : EffectiveQuantity(quantities, it) = OrderedQuantity(it)
    THEN "received"
    ELSE IF \A it \in ItemIds : EffectiveQuantity(quantities, it) = 0
         THEN order.status
         ELSE "partial"

\* The order after the backend has applied a receive request (the status; the
\* quantities it stores are not read by any handler of the page).
ServerReceive(order, quantities) ==
    [ order EXCEPT !.status = DerivedStatus(order, quantities) ]

\* The order after the backend has applied a status-update request.
ServerUpdateStatus(order, status) == [ order EXCEPT !.status = status ]

\* The order as a response of the backend carries it to the page: of the fields
\* of Purchase, the ones a handler or a condition of the page reads.
PurchaseOf(order) == [ id |-> order.id, status |-> order.status ]

\* ------------------------------------------------------------ what is shown
\* The status of the order in a Purchase[] or in selectedPurchase.
StatusIn(list) == IF list = << >> THEN "unknown" ELSE list[1].status

DetailShown == showDetailModal /\ selectedPurchase # << >>
ReceiveShown == showReceiveModal /\ selectedPurchase # << >>
\* The rows of the table can be clicked: the list is not loading, it holds the
\* order, and no modal (fixed inset-0) lies over the page.
RowsShown ==
    /\ ~purchasesLoading
    /\ purchases # << >>
    /\ ~DetailShown
    /\ ~ReceiveShown

\* purchase.status === 'pending' || purchase.status === 'ordered'
ReceiveOffered(purchase) == purchase.status \in { "pending", "ordered" }
\* The row's Cancel Order button, under the same condition.
RowCancelOffered(purchase) == purchase.status \in { "pending", "ordered" }
\* selectedPurchase.status === 'pending'
DetailCancelOffered(purchase) == purchase.status = "pending"

\* ------------------------------------------------------------ fetchPurchases
\* fetchPurchases() up to its await.
fetchPurchases ==
    /\ fetchInFlight < MaxFetchInFlight
    /\ purchasesLoading' = TRUE
    /\ fetchInFlight' = fetchInFlight + 1

\* onClick of Refresh.
RefreshClick ==
    /\ ~DetailShown /\ ~ReceiveShown
    /\ fetchPurchases
    /\ UNCHANGED << serverOrder, purchases, showReceiveModal, showDetailModal,
                    selectedPurchase, receiveQuantities, receiveInFlight,
                    statusInFlight, purchaseRequests >>
    /\ UNCHANGED << posVars, createVars >>
    /\ alertShown' = ""

\* fetchPurchases after its await: setPurchases(response.data), setLoading(false).
FetchSucceeds ==
    /\ fetchInFlight > 0
    /\ fetchInFlight' = fetchInFlight - 1
    /\ purchases' = << PurchaseOf(serverOrder) >>
    /\ purchasesLoading' = FALSE
    /\ UNCHANGED << serverOrder, showReceiveModal, showDetailModal, selectedPurchase,
                    receiveQuantities, receiveInFlight, statusInFlight, purchaseRequests >>
    /\ UNCHANGED << posVars, createVars >>
    /\ alertShown' = ""

\* fetchPurchases after its await, the request having failed: console.error.
FetchFails ==
    /\ fetchInFlight > 0
    /\ fetchInFlight' = fetchInFlight - 1
    /\ purchasesLoading' = FALSE
    /\ UNCHANGED << serverOrder, purchases, showReceiveModal, showDetailModal,
                    selectedPurchase, receiveQuantities, receiveInFlight,
                    statusInFlight, purchaseRequests >>
    /\ UNCHANGED << posVars, createVars >>
    /\ alertShown' = ""

\* ------------------------------------------------------------- the handlers
\* viewPurchaseDetails(purchase)
viewPurchaseDetails(purchase) ==
    /\ selectedPurchase' = << purchase >>
    /\ showDetailModal' = TRUE
    /\ UNCHANGED << serverOrder, purchases, purchasesLoading, showReceiveModal,
                    receiveQuantities, receiveInFlight, statusInFlight,
                    fetchInFlight, purchaseRequests >>
    /\ UNCHANGED << posVars, createVars >>
    /\ alertShown' = ""

\* A prepareReceivePurchase that fills in nothing.
DefaultQuantitiesNone(purchase) == << >>

\* The quantities prepareReceivePurchase fills in: item.quantity for each item.
DefaultQuantities(purchase) == [ it \in ItemIds |-> OrderedQuantity(it) ]

\* prepareReceivePurchase(purchase), leaving showDetailModal to its caller.
prepareReceivePurchase(purchase) ==
    /\ selectedPurchase' = << purchase >>
    /\ receiveQuantities' = DefaultQuantities(purchase)
    /\ showReceiveModal' = TRUE
    /\ UNCHANGED << serverOrder, purchases, purchasesLoading, receiveInFlight,
                    statusInFlight, fetchInFlight, purchaseRequests >>
    /\ UNCHANGED << posVars, createVars >>
    /\ alertShown' = ""

\* handleReceivePurchase() up to its await.
handleReceivePurchase ==
    /\ IF selectedPurchase = << >>
       THEN UNCHANGED << receiveInFlight, purchaseRequests >>
       ELSE /\ purchaseRequests < MaxPurchaseRequests
            /\ purchaseRequests' = purchaseRequests + 1
            /\ receiveInFlight' =
                  Append(receiveInFlight, [ id |-> selectedPurchase[1].id,
                                            received_quantities |-> receiveQuantities ])
    /\ UNCHANGED << serverOrder, purchases, purchasesLoading, showReceiveModal,
                    showDetailModal, selectedPurchase, receiveQuantities,
                    statusInFlight, fetchInFlight >>
    /\ UNCHANGED << posVars, createVars >>
    /\ alertShown' = ""

\* handleUpdateStatus without its confirm(): the request is sent whatever the
\* answer.
handleUpdateStatusNoConfirm(purchaseId, status, confirmed) ==
    /\ purchaseRequests < MaxPurchaseRequests
    /\ purchaseRequests' = purchaseRequests + 1
    /\ statusInFlight' =
          Append(statusInFlight, [ id |-> purchaseId, status |-> status ])
    /\ UNCHANGED << serverOrder, purchases, purchasesLoading, showReceiveModal,
                    selectedPurchase, receiveQuantities, receiveInFlight, fetchInFlight >>
    /\ UNCHANGED << posVars, createVars >>
    /\ alertShown' = ""

\* handleUpdateStatus(purchaseId, status) up to its await, confirmed being the
\* answer to its confirm(); showDetailModal is left to the caller.
handleUpdateStatus(purchaseId, status, confirmed) ==
    /\ IF ~confirmed
       THEN UNCHANGED << statusInFlight, purchaseRequests >>
       ELSE /\ purchaseRequests < MaxPurchaseRequests
            /\ purchaseRequests' = purchaseRequests + 1
            /\ statusInFlight' =
                  Append(statusInFlight, [ id |-> purchaseId, status |-> status ])
    /\ UNCHANGED << serverOrder, purchases, purchasesLoading, showReceiveModal,
                    selectedPurchase, receiveQuantities, receiveInFlight, fetchInFlight >>
    /\ UNCHANGED << posVars, createVars >>
    /\ alertShown' = ""

\* ------------------------------------------------------------ the controls
\* onClick of the eye button of the row.
ViewDetailsClick ==
    /\ RowsShown
    /\ viewPurchaseDetails(purchases[1])

\* onClick of the row's Receive Order button.
RowReceiveClick ==
    /\ RowsShown
    /\ ReceiveOffered(purchases[1])
    /\ prepareReceivePurchase(purchases[1])
    /\ UNCHANGED showDetailModal

\* onClick of the row's Cancel Order button.
RowCancelClick(confirmed) ==
    /\ RowsShown
    /\ RowCancelOffered(purchases[1])
    /\ handleUpdateStatus(purchases[1].id, "cancelled", confirmed)
    /\ UNCHANGED showDetailModal

\* onClick of Receive Order in the detail modal.
DetailReceiveClick ==
    /\ DetailShown
    /\ ReceiveOffered(selectedPurchase[1])
    /\ showDetailModal' = FALSE
    /\ prepareReceivePurchase(selectedPurchase[1])

\* onClick of Cancel Order in the detail modal: its own confirm(), then
\* handleUpdateStatus (which asks again) and setShowDetailModal(false).
DetailCancelClick(confirmedFirst, confirmed) ==
    /\ DetailShown
    /\ DetailCancelOffered(selectedPurchase[1])
    /\ IF confirmedFirst
       THEN /\ handleUpdateStatus(selectedPurchase[1].id, "cancelled", confirmed)
            /\ showDetailModal' = FALSE
       ELSE /\ UNCHANGED purchaseVars
            /\ UNCHANGED << posVars, createVars >>
            /\ alertShown' = ""

\* onClick of the detail modal's Close (or its cross).
DetailCloseClick ==
    /\ DetailShown
    /\ showDetailModal' = FALSE
    /\ UNCHANGED << serverOrder, purchases, purchasesLoading, showReceiveModal,
                    selectedPurchase, receiveQuantities, receiveInFlight,
                    statusInFlight, fetchInFlight, purchaseRequests >>
    /\ UNCHANGED << posVars, createVars >>
    /\ alertShown' = ""

\* value={receiveQuantities[item.id] || item.quantity} of a Received Quantity
\* field: the ordered quantity where the entry is missing or 0.
DisplayedQuantity(itemId) ==
    IF itemId \in DOMAIN receiveQuantities /\ receiveQuantities[itemId] # 0
    THEN receiveQuantities[itemId]
    ELSE OrderedQuantity(itemId)

\* onChange of a Received Quantity field: value is parseInt(e.target.value) || 0.
TypeReceivedQuantity(itemId, value) ==
    /\ ReceiveShown
    /\ receiveQuantities' =
          [ it \in DOMAIN receiveQuantities \cup { itemId } |->
              IF it = itemId THEN value ELSE receiveQuantities[it] ]
    /\ UNCHANGED << serverOrder, purchases, purchasesLoading, showReceiveModal,
                    showDetailModal, selectedPurchase, receiveInFlight,
                    statusInFlight, fetchInFlight, purchaseRequests >>
    /\ UNCHANGED << posVars, createVars >>
    /\ alertShown' = ""

\* onClick of the receive modal's Cancel (or its cross).
ReceiveCloseClick ==
    /\ ReceiveShown
    /\ showReceiveModal' = FALSE
    /\ UNCHANGED << serverOrder, purchases, purchasesLoading, showDetailModal,
                    selectedPurchase, receiveQuantities, receiveInFlight,
                    statusInFlight, fetchInFlight, purchaseRequests >>
    /\ UNCHANGED << posVars, createVars >>
    /\ alertShown' = ""

\* onClick of Confirm Receipt.
ConfirmReceiptClick ==
    /\ ReceiveShown
    /\ handleReceivePurchase

\* ------------------------------------------------------------ the responses
\* A success branch that writes the status it computes itself into the list
\* and fetches nothing.
ReceiveSucceedsLocal(i) ==
    /\ i \in 1..Len(receiveInFlight)
    /\ receiveInFlight' = RemoveAt(receiveInFlight, i)
    /\ serverOrder' = ServerReceive(serverOrder, receiveInFlight[i].received_quantities)
    /\ showReceiveModal' = FALSE
    /\ purchases' = << [ id |-> receiveInFlight[i].id, status |-> "received" ] >>
    /\ UNCHANGED << purchasesLoading, fetchInFlight, showDetailModal, selectedPurchase,
                    receiveQuantities, statusInFlight, purchaseRequests >>
    /\ UNCHANGED << posVars, createVars >>
    /\ alertShown' = "Purchase order received successfully!"

\* handleReceivePurchase after its await, the backend having applied the
\* request: setShowReceiveModal(false), fetchPurchases().
ReceiveSucceeds(i) ==
    /\ i \in 1..Len(receiveInFlight)
    /\ receiveInFlight' = RemoveAt(receiveInFlight, i)
    /\ serverOrder' = ServerReceive(serverOrder, receiveInFlight[i].received_quantities)
    /\ showReceiveModal' = FALSE
    /\ fetchPurchases
    /\ UNCHANGED << purchases, showDetailModal, selectedPurchase, receiveQuantities,
                    statusInFlight, purchaseRequests >>
    /\ UNCHANGED << posVars, createVars >>
    /\ alertShown' = "Purchase order received successfully!"

\* handleReceivePurchase after its await, the request having failed: the alert.
ReceiveFails(i) ==
    /\ i \in 1..Len(receiveInFlight)
    /\ receiveInFlight' = RemoveAt(receiveInFlight, i)
    /\ UNCHANGED << serverOrder, purchases, purchasesLoading, showReceiveModal,
                    showDetailModal, selectedPurchase, receiveQuantities,
                    statusInFlight, fetchInFlight, purchaseRequests >>
    /\ UNCHANGED << posVars, createVars >>
    /\ alertShown' = "Failed to receive purchase order"

\* handleUpdateStatus after its await, the backend having applied the request:
\* fetchPurchases().
StatusSucceeds(i) ==
    /\ i \in 1..Len(statusInFlight)
    /\ statusInFlight' = RemoveAt(statusInFlight, i)
    /\ serverOrder' = ServerUpdateStatus(serverOrder, statusInFlight[i].status)
    /\ fetchPurchases
    /\ UNCHANGED << purchases, showReceiveModal, showDetailModal, selectedPurchase,
                    receiveQuantities, receiveInFlight, purchaseRequests >>
    /\ UNCHANGED << posVars, createVars >>
    /\ alertShown' = "Purchase status updated successfully!"

\* handleUpdateStatus after its await, the request having failed: the alert.
StatusFails(i) ==
    /\ i \in 1..Len(statusInFlight)
    /\ statusInFlight' = RemoveAt(statusInFlight, i)
    /\ UNCHANGED << serverOrder, purchases, purchasesLoading, showReceiveModal,
                    showDetailModal, selectedPurchase, receiveQuantities,
                    receiveInFlight, fetchInFlight, purchaseRequests >>
    /\ UNCHANGED << posVars, createVars >>
    /\ alertShown' = "Failed to update purchase status"

\* -------------------------------------------------------- the purchases page
NextPurchases ==
    \/ RefreshClick
    \/ FetchSucceeds
    \/ FetchFails
    \/ ViewDetailsClick
    \/ RowReceiveClick
    \/ \E confirmed \in ConfirmAnswers : RowCancelClick(confirmed)
    \/ DetailReceiveClick
    \/ \E confirmedFirst \in ConfirmAnswers : \E confirmed \in ConfirmAnswers :
          DetailCancelClick(confirmedFirst, confirmed)
    \/ DetailCloseClick
    \/ \E it \in ItemIds : \E value \in ReceiveInputs(it) : TypeReceivedQuantity(it, value)
    \/ ReceiveCloseClick
    \/ ConfirmReceiptClick
    \/ \E i \in 1..MaxPurchaseRequests : ReceiveSucceeds(i)
    \/ \E i \in 1..MaxPurchaseRequests : ReceiveFails(i)
    \/ \E i \in 1..MaxPurchaseRequests : StatusSucceeds(i)
    \/ \E i \in 1..MaxPurchaseRequests : StatusFails(i)

InitPurchases == PosInit /\ PurchasesInit

SpecPurchases == InitPurchases /\ [][NextPurchases]_vars

\* ------------------------------------------------ handleUpdateStatus called
\* handleUpdateStatus called as a function with any status, on the order as
\* the responses of the backend and the re-fetches leave it.
CallHandleUpdateStatus(status, confirmed) ==
    /\ handleUpdateStatus(OrderId, status, confirmed)
    /\ UNCHANGED showDetailModal

NextStatusCalls ==
    \/ FetchSucceeds
    \/ FetchFails
    \/ \E status \in OrderStatus : \E confirmed \in ConfirmAnswers :
          CallHandleUpdateStatus(status, confirmed)
    \/ \E i \in 1..MaxPurchaseRequests : StatusSucceeds(i)
    \/ \E i \in 1..MaxPurchaseRequests : StatusFails(i)

SpecStatusCalls == InitPurchases /\ [][NextStatusCalls]_vars

\* ================================================ the new purchase order
\* parseFloat on the strings the form can hold: << n >> for the number n,
\* << >> for NaN.
parseFloat(value) ==
    CASE value = "0" -> << 0 >>
      [] value = "1" -> << 1 >>
      [] value = "10" -> << 10 >>
      [] value = "-3" -> << 0 - 3 >>
      [] value = "-5" -> << 0 - 5 >>
      [] OTHER -> << >>

\* toNumber(value) for a string: parseFloat, 0 where that is NaN.
toNumber(value) ==
    LET num == parseFloat(value)
    IN  IF num = << >> THEN 0 ELSE num[1]

\* The newItem of useState and of the two resets.
EmptyItem == [ medicine_id |-> "", quantity |-> "1", unit_cost |-> "" ]

\* resetNewPurchase()
resetNewPurchase ==
    /\ newPurchase' = [ supplier_id |-> "", items |-> << >> ]
    /\ newItem' = EmptyItem

\* disabled={!newPurchase.supplier_id || newPurchase.items.length === 0}
CreateDisabled == newPurchase.supplier_id = "" \/ Len(newPurchase.items) = 0

\* The purchaseData object handleCreatePurchase builds.
PurchaseData ==
    [ supplier_id |-> parseInt(newPurchase.supplier_id),
      items |-> [ k \in 1..Len(newPurchase.items) |->
                    [ medicine_id |-> parseInt(newPurchase.items[k].medicine_id),
                      quantity |-> toNumber(newPurchase.items[k].quantity),
                      unit_cost |-> toNumber(newPurchase.items[k].unit_cost) ] ] ]

\* onClick of New Purchase Order.
OpenAddModalClick ==
    /\ ~showAddModal /\ ~DetailShown /\ ~ReceiveShown
    /\ showAddModal' = TRUE
    /\ alertShown' = ""
    /\ UNCHANGED << newPurchase, newItem, createInFlight, createRequests >>
    /\ UNCHANGED << posVars, purchaseVars >>

\* onClick of the form's cross or of its Cancel.
CloseAddModalClick ==
    /\ showAddModal
    /\ showAddModal' = FALSE
    /\ resetNewPurchase
    /\ alertShown' = ""
    /\ UNCHANGED << createInFlight, createRequests >>
    /\ UNCHANGED << posVars, purchaseVars >>

\* onChange of Select Supplier.
SelectSupplier(value) ==
    /\ showAddModal
    /\ newPurchase' = [ newPurchase EXCEPT !.supplier_id = value ]
    /\ alertShown' = ""
    /\ UNCHANGED << showAddModal, newItem, createInFlight, createRequests >>
    /\ UNCHANGED << posVars, purchaseVars >>

\* onChange of the Medicine select.
SelectMedicine(value) ==
    /\ showAddModal
    /\ newItem' = [ newItem EXCEPT !.medicine_id = value ]
    /\ alertShown' = ""
    /\ UNCHANGED << showAddModal, newPurchase, createInFlight, createRequests >>
    /\ UNCHANGED << posVars, purchaseVars >>

\* onChange of Qty.
TypeItemQuantity(value) ==
    /\ showAddModal
    /\ newItem' = [ newItem EXCEPT !.quantity = value ]
    /\ alertShown' = ""
    /\ UNCHANGED << showAddModal, newPurchase, createInFlight, createRequests >>
    /\ UNCHANGED << posVars, purchaseVars >>

\* onChange of Unit Cost.
TypeUnitCost(value) ==
    /\ showAddModal
    /\ newItem' = [ newItem EXCEPT !.unit_cost = value ]
    /\ alertShown' = ""
    /\ UNCHANGED << showAddModal, newPurchase, createInFlight, createRequests >>
    /\ UNCHANGED << posVars, purchaseVars >>

\* handleAddItem()
handleAddItem ==
    /\ IF newItem.medicine_id = "" \/ newItem.quantity = "" \/ newItem.unit_cost = ""
       THEN /\ alertShown' = "Please fill in all required item fields"
            /\ UNCHANGED << newPurchase, newItem >>
       ELSE IF parseInt(newItem.medicine_id) \notin OrderMedicines
            THEN /\ alertShown' = ""
                 /\ UNCHANGED << newPurchase, newItem >>
            ELSE /\ Len(newPurchase.items) < MaxItems
                 /\ newPurchase' = [ newPurchase EXCEPT !.items = Append(@, newItem) ]
                 /\ newItem' = EmptyItem
                 /\ alertShown' = ""
    /\ UNCHANGED << showAddModal, createInFlight, createRequests >>
    /\ UNCHANGED << posVars, purchaseVars >>

\* onClick of Add Item.
AddItemClick ==
    /\ showAddModal
    /\ handleAddItem

\* handleRemoveItem(index), from the trash button of an item of the summary.
handleRemoveItem(index) ==
    /\ showAddModal
    /\ index \in 1..Len(newPurchase.items)
    /\ newPurchase' = [ newPurchase EXCEPT !.items = RemoveAt(@, index) ]
    /\ alertShown' = ""
    /\ UNCHANGED << showAddModal, newItem, createInFlight, createRequests >>
    /\ UNCHANGED << posVars, purchaseVars >>

\* handleCreatePurchase() up to its await.
handleCreatePurchase ==
    /\ IF newPurchase.supplier_id = "" \/ Len(newPurchase.items) = 0
       THEN /\ alertShown' = "Please select a supplier and add at least one item"
            /\ UNCHANGED << createInFlight, createRequests >>
       ELSE /\ createRequests < MaxCreateRequests
            /\ createRequests' = createRequests + 1
            /\ createInFlight' = Append(createInFlight, PurchaseData)
            /\ alertShown' = ""
    /\ UNCHANGED << showAddModal, newPurchase, newItem >>
    /\ UNCHANGED << posVars, purchaseVars >>

\* onClick of Create Purchase Order.
CreatePurchaseClick ==
    /\ showAddModal
    /\ ~CreateDisabled
    /\ handleCreatePurchase

\* handleCreatePurchase after its await, the backend having created the order:
\* setShowAddModal(false), resetNewPurchase(), fetchPurchases(), the alert.
\* (The list of the model follows the order OrderId, not the one created.)
CreateSucceeds(i) ==
    /\ i \in 1..Len(createInFlight)
    /\ createInFlight' = RemoveAt(createInFlight, i)
    /\ showAddModal' = FALSE
    /\ resetNewPurchase
    /\ fetchPurchases
    /\ alertShown' = "Purchase order created successfully!"
    /\ UNCHANGED << serverOrder, purchases, showReceiveModal, showDetailModal,
                    selectedPurchase, receiveQuantities, receiveInFlight,
                    statusInFlight, purchaseRequests >>
    /\ UNCHANGED createRequests
    /\ UNCHANGED posVars

\* handleCreatePurchase after its await, the request having failed: the alert.
CreateFails(i) ==
    /\ i \in 1..Len(createInFlight)
    /\ createInFlight' = RemoveAt(createInFlight, i)
    /\ alertShown' = "Failed to create purchase order"
    /\ UNCHANGED << showAddModal, newPurchase, newItem, createRequests >>
    /\ UNCHANGED << posVars, purchaseVars >>

\* The form of a new purchase order and the list behind it.
NextCreate ==
    \/ OpenAddModalClick
    \/ CloseAddModalClick
    \/ \E value \in SupplierChoices : SelectSupplier(value)
    \/ \E value \in MedicineChoices : SelectMedicine(value)
    \/ \E value \in ItemQuantityInputs : TypeItemQuantity(value)
    \/ \E value \in UnitCostInputs : TypeUnitCost(value)
    \/ AddItemClick
    \/ \E index \in 1..MaxItems : handleRemoveItem(index)
    \/ \E i \in 1..MaxCreateRequests : CreateSucceeds(i)
    \/ \E i \in 1..MaxCreateRequests : CreateFails(i)
    \/ CreatePurchaseClick
    \/ FetchSucceeds
    \/ FetchFails

SpecCreate == InitPurchases /\ [][NextCreate]_vars

\* ================================================================= claims
RECURSIVE SumOfLineTotals(_, _)
SumOfLineTotals(c, n) ==
    IF n = 0 THEN 0 ELSE c[n].total_price + SumOfLineTotals(c, n - 1)

\* The step just taken ran the handler op.
Ran(op) == lastEvent'.op = op /\ vars' # vars

\* C1: after any sequence of addItem, updateItem, removeItem, clear and
\* cart-discount changes, subtotal is the sum of the line totals of the lines in
\* the cart, discountAmount = subtotal * discount / 100, taxAmount = subtotal *
\* tax / 100 and grandTotal = subtotal - discountAmount + taxAmount.
C1_TotalsDerived ==
    /\ subtotal = SumOfLineTotals(cart, Len(cart))
    /\ discountAmount = subtotal * discount
    /\ taxAmount = subtotal * TAX_PERCENTAGE
    /\ grandTotal = subtotal * 100 - discountAmount + taxAmount

C1_Witness ==
    /\ lastEvent.op = "setDiscount"
    /\ Len(cart) = 2
    /\ discount = 5
    /\ \E i \in 1..Len(cart) : cart[i].discount_percent = 10 /\ cart[i].quantity = 2

\* C2: at most one process-sale request is in flight, and while one is in
\* flight no step issues another.
C2_OneInFlight ==
    /\ [](Len(saleInFlight) <= 1)
    /\ [][saleInFlight # << >> => saleRequests' = saleRequests]_vars

C2_Witness ==
    /\ Len(saleInFlight) = 1
    /\ processing
    /\ saleRequests = 2
    /\ lastEvent.op = "processSale"

\* C3: addItem for an id already in the cart adds 1 to that line's quantity and
\* adds no line; for a new id it appends one line of quantity 1; no two lines of
\* the cart ever share a medicine id.
C3_AddAccumulates ==
    /\ [](\A i, j \in 1..Len(cart) : cart[i].medicine_id = cart[j].medicine_id => i = j)
    /\ [][Ran("addToCart") =>
            LET id == lastEvent'.id
                k == IndexOf(cart, id)
            IN  IF k # 0
                THEN /\ Len(cart') = Len(cart)
                     /\ cart'[k].medicine_id = id
                     /\ cart'[k].quantity = cart[k].quantity + 1
                ELSE /\ Len(cart') = Len(cart) + 1
                     /\ cart'[Len(cart')].medicine_id = id
                     /\ cart'[Len(cart')].quantity = 1]_vars

C3_Witness ==
    /\ lastEvent = [ op |-> "addToCart", id |-> 1, before |-> 1 ]
    /\ Len(cart) = 1
    /\ cart[1].medicine_id = 1
    /\ cart[1].quantity = 2

\* C4: removeItem with an id that is not in the cart leaves the cart as it was,
\* and removing the same id twice gives the cart that removing it once gives.
C4_RemoveIdempotent ==
    /\ [][(Ran("removeFromCart") /\ ~InCart(cart, lastEvent'.id)) => cart' = cart]_vars
    /\ [](\A id \in MedicineIds \cup { AbsentId } :
            removeFromCart(removeFromCart(cart, id), id) = removeFromCart(cart, id))

C4_Witness ==
    /\ lastEvent = [ op |-> "removeFromCart", id |-> AbsentId, before |-> 0 ]
    /\ Len(cart) = 2

\* C5: every line's stored total_price is quantity * unit_price *
\* (1 - discount_percent / 100) for the line's current values.
C5_LineTotalFresh ==
    \A i \in 1..Len(cart) :
        cart[i].total_price =
            cart[i].quantity * cart[i].unit_price * (100 - cart[i].discount_percent)

C5_Witness ==
    /\ lastEvent.op = "updateCartItem"
    /\ \E i \in 1..Len(cart) : cart[i].discount_percent = 10 /\ cart[i].quantity = 3

C7_Original ==
    \A i \in 1..Len(cart) : cart[i].discount_percent \in 0..100

\* C8: clear() leaves no lines, cart discount 0, no customer and payment method
\* cash, whatever they were before.
C8_ClearResets ==
    [][(Ran("clearCart") \/ Ran("cancelTransaction") \/ Ran("clearTimer")) =>
          /\ cart' = << >>
          /\ discount' = 0
          /\ customerId' = ""
          /\ paymentMethod' = "cash"]_vars

\* A sale was submitted with a customer, a discount and a payment method other
\* than cash, and the transaction was then cancelled while it was in flight.
C8_Witness ==
    /\ lastEvent.op = "cancelTransaction"
    /\ Len(saleInFlight) = 1
    /\ saleInFlight[1].payment_method # "cash"
    /\ saleInFlight[1].customer_id # NullId
    /\ saleInFlight[1].discount_amount # 0
    /\ cart = << >> /\ discount = 0 /\ customerId = "" /\ paymentMethod = "cash"

\* The cart of scenario A: 3 at 100 without line discount, 1 at 50 with 10%,
\* cart discount 5%.
ScenarioA ==
    /\ Len(cart) = 2
    /\ cart[1].quantity = 3 /\ cart[1].unit_price = 100 /\ cart[1].discount_percent = 0
    /\ cart[2].quantity = 1 /\ cart[2].unit_price = 50 /\ cart[2].discount_percent = 10
    /\ discount = 5

\* C9: for scenario A with tax 18% the totals are subtotal 345.00,
\* discountAmount 17.25, taxAmount 62.10 and grandTotal 389.85 (tax on the
\* undiscounted subtotal).
C9_ScenarioA ==
    ScenarioA =>
        /\ TAX_PERCENTAGE = 18
        /\ subtotal = 34500
        /\ discountAmount = 172500
        /\ taxAmount = 621000
        /\ grandTotal = 3898500

C9_Witness == ScenarioA /\ lastEvent.op = "setDiscount"

C11_Original ==
    [][\A i \in 1..Len(saleInFlight) :
          (Ran("saleSucceeds") /\ saleInFlight' = RemoveAt(saleInFlight, i)) =>
             \A k \in 1..Len(saleInFlight[i].items) :
                ~InCart(cart', saleInFlight[i].items[k].medicine_id)]_vars

\* C12: processSale on a cart with no lines sends no process-sale request,
\* does not set processing, and leaves the cart, the selections and the totals
\* as they were.
C12_EmptyCartRejected ==
    [][(Ran("processSale") /\ Len(cart) = 0) =>
          UNCHANGED << saleInFlight, saleRequests, processing, cart, customerId,
                       customerSearch, paymentMethod, discount, success,
                       receiptNumber, clearTimers, subtotal, discountAmount,
                       taxAmount, grandTotal >>]_vars

\* processSale has just run on an empty cart, a request of an earlier call
\* still awaiting its response.
C12_Witness ==
    /\ lastEvent.op = "processSale"
    /\ Len(cart) = 0
    /\ Len(saleInFlight) = 1
    /\ saleRequests = 1

\* ---------------------------------------------------- purchase-order claims
\* The step just taken sent a status-update request asking for status.
StatusSent(status) ==
    /\ Len(statusInFlight') = Len(statusInFlight) + 1
    /\ statusInFlight'[Len(statusInFlight')].status = status

\* The step just taken sent a receive request.
ReceiveSent == Len(receiveInFlight') = Len(receiveInFlight) + 1

\* The statuses that accept no further transition.
TerminalStatuses == { "received", "cancelled" }

\* The adjacency rules of the order's state machine.
LegalTransition(from, to) ==
    \/ from = "pending" /\ to \in { "ordered", "cancelled", "partial", "received" }
    \/ from = "ordered" /\ to \in { "partial", "received", "cancelled" }
    \/ from = "partial" /\ to \in { "received", "cancelled" }

\* A received_quantities payload keeps every item within 0..ordered quantity.
InRange(quantities) ==
    \A it \in ItemIds :
        /\ 0 <= EffectiveQuantity(quantities, it)
        /\ EffectiveQuantity(quantities, it) <= OrderedQuantity(it)

\* A received_quantities payload in which every item's quantity is 0.
AllZero(quantities) == \A it \in ItemIds : EffectiveQuantity(quantities, it) = 0

\* C13: a cancel request is sent only while the order's status, as the page
\* lists it, is pending or ordered, from the row or from the detail modal.
C13_Original ==
    [][StatusSent("cancelled") => StatusIn(purchases) \in { "pending", "ordered" }]_vars

\* C14: handleUpdateStatus sends a status-update request only for a pair
\* (current status, new status) the adjacency rules allow; for any other pair,
\* such as received -> pending, no request is sent.  The current status is the
\* one the page lists for the order.
C14_Original ==
    [][\A status \in OrderStatus :
          (StatusSent(status) /\ purchases # << >>) =>
             LegalTransition(StatusIn(purchases), status)]_vars

\* C15: for an order whose status is received or cancelled no receive request
\* and no status-update request is sent, not even from a modal opened earlier
\* that still holds an older copy of the order.
C15_Original ==
    [][(ReceiveSent \/ \E status \in OrderStatus : StatusSent(status)) =>
          StatusIn(purchases) \notin TerminalStatuses]_vars

\* C16: every receive request sent carries, for every item, a received
\* quantity q with 0 <= q <= the item's ordered quantity.
C16_Original ==
    \A i \in 1..Len(receiveInFlight) : InRange(receiveInFlight[i].received_quantities)

\* C17: no receive request is sent in which every item's received quantity is 0.
C17_Original ==
    \A i \in 1..Len(receiveInFlight) : ~AllZero(receiveInFlight[i].received_quantities)

\* C18: an order that a first receive left partial (items [10, 5], receive
\* {10, 3}) can be received again, so that a second receive {10, 5} makes it
\* received: where the page lists the order as partial it offers Receive Order.
C18_Original ==
    (RowsShown /\ StatusIn(purchases) = "partial") => ReceiveOffered(purchases[1])

\* C19: for every item, a receive request never carries a received quantity
\* smaller than the one an earlier receive request of the session carried
\* (the earlier requests seen here are those still awaiting their answer).
C19_Original ==
    [][ReceiveSent =>
          \A i \in 1..Len(receiveInFlight) : \A it \in ItemIds :
              EffectiveQuantity(receiveInFlight'[Len(receiveInFlight')].received_quantities, it)
                 >= EffectiveQuantity(receiveInFlight[i].received_quantities, it)]_vars

\* ------------------------------------------------------------ search claims
\* The step just taken handled the response of a search request that was not
\* the one issued last: a later request is still in flight, or the latest
\* request has been answered already.
StaleSearchResponse ==
    /\ Len(searchInFlight') = Len(searchInFlight) - 1
    /\ \/ ~searchLatestPending
       \/ searchInFlight' # SubSeq(searchInFlight, 1, Len(searchInFlight) - 1)

\* C20: the response of a search request that is not the most recently issued
\* one is discarded: it leaves the displayed results as they are.
C20_Original == [][StaleSearchResponse => searchResults' = searchResults]_vars

\* ---------------------------------------------------- claims on submissions
\* C21: for the order, at most one receive or status-update request awaits its
\* response at any time: a second Confirm Receipt or cancel while the first
\* request is pending sends nothing.
C21_Original == Len(receiveInFlight) + Len(statusInFlight) <= 1

\* C22: every create-purchase-order request sent carries, for each item, a
\* medicine of the list, a quantity above 0 and a unit cost of 0 or more.
C22_Original ==
    \A i \in 1..Len(createInFlight) :
        \A k \in 1..Len(createInFlight[i].items) :
            /\ createInFlight[i].items[k].medicine_id \in OrderMedicines
            /\ createInFlight[i].items[k].quantity > 0
            /\ createInFlight[i].items[k].unit_cost >= 0

\* The step just taken handled the failure of a request: of a medicine or
\* customer search, a sale, an order create, a receive, a status update or a
\* fetch of the order list.
FailureHandled ==
    \/ \E i \in 1..MaxSearchInFlight : SearchFails(i)
    \/ \E i \in 1..MaxCustomerInFlight : CustomerSearchFails(i)
    \/ \E i \in 1..MaxSaleRequests : SaleFails(i)
    \/ \E i \in 1..MaxCreateRequests : CreateFails(i)
    \/ \E i \in 1..MaxPurchaseRequests : ReceiveFails(i)
    \/ \E i \in 1..MaxPurchaseRequests : StatusFails(i)
    \/ FetchFails

\* C23: every failed operation reports its error to the user: the handler of
\* a failure shows a message, none only logs and carries on.
C23_Original == [][FailureHandled => alertShown' # ""]_vars

\* ------------------------------------------------------- receive-form claims
\* The step just taken opened the receive form.
ReceiveOpened == ~showReceiveModal /\ showReceiveModal'

\* C24: opening the receive form sets the received quantity of every item of
\* the order to its ordered quantity; the form's quantities then change only
\* by an edit in the open form, and Confirm Receipt sends them as they stand:
\* confirming without editing sends the ordered quantity for every item.
C24_DefaultsToOrdered ==
    [][/\ ReceiveOpened =>
             \A it \in ItemIds :
                 /\ it \in DOMAIN receiveQuantities'
                 /\ receiveQuantities'[it] = OrderedQuantity(it)
       /\ (receiveQuantities' # receiveQuantities /\ ~ReceiveOpened) =>
             (ReceiveShown /\ showReceiveModal')
       /\ ReceiveSent =>
             receiveInFlight'[Len(receiveInFlight')].received_quantities
                = receiveQuantities]_vars

\* The form is open and unedited, and the request Confirm Receipt sent carries
\* the ordered quantity of each item.
C24_Witness ==
    /\ ReceiveShown
    /\ Len(receiveInFlight) = 1
    /\ \A it \in ItemIds :
          /\ receiveQuantities[it] = OrderedQuantity(it)
          /\ receiveInFlight[1].received_quantities[it] = OrderedQuantity(it)

\* ------------------------------------------------------ confirmation claims
\* The step just taken was a Cancel Order click the user declined: at the
\* confirm() of handleUpdateStatus, or at the detail modal's own before it.
CancelDeclined ==
    \/ RowCancelClick(FALSE)
    \/ \E confirmedFirst \in ConfirmAnswers : \E confirmed \in ConfirmAnswers :
          /\ ~confirmedFirst \/ ~confirmed
          /\ DetailCancelClick(confirmedFirst, confirmed)

\* The step just taken was a Cancel Order click confirmed at every confirm().
CancelConfirmed == RowCancelClick(TRUE) \/ DetailCancelClick(TRUE, TRUE)

\* C25: a cancel request is sent only by a click the user confirmed; a click
\* declined sends no request, starts no re-fetch and leaves the order list
\* (and the backend's order) as it was.
C25_ConfirmFirst ==
    [][/\ StatusSent("cancelled") => CancelConfirmed
       /\ CancelDeclined =>
             UNCHANGED << statusInFlight, receiveInFlight, purchaseRequests,
                          fetchInFlight, purchasesLoading, purchases, serverOrder >>]_vars

\* The detail modal's Cancel Order was declined at the second confirm(): the
\* modal has closed over the copy it held, nothing was sent, the row of the
\* pending order still offers Cancel Order.
C25_Witness ==
    /\ selectedPurchase # << >>
    /\ ~showDetailModal /\ ~showReceiveModal
    /\ purchaseRequests = 0
    /\ statusInFlight = << >>
    /\ fetchInFlight = 0
    /\ RowsShown
    /\ RowCancelOffered(purchases[1])

\* ------------------------------------------------------- re-fetch claims
\* The step just taken handled the answer to a receive or status-update
\* request: the success of one, the failure of one.
RequestAnswered ==
    Len(receiveInFlight') + Len(statusInFlight')
       < Len(receiveInFlight) + Len(statusInFlight)
RequestSucceeded ==
    /\ RequestAnswered
    /\ alertShown' \in { "Purchase order received successfully!",
                         "Purchase status updated successfully!" }
RequestFailed ==
    /\ RequestAnswered
    /\ alertShown' \in { "Failed to receive purchase order",
                         "Failed to update purchase status" }

\* C26: the order list is only ever replaced by what the backend answers to a
\* fetch; the success of a receive or status update writes nothing into the
\* list itself and starts a re-fetch; its failure leaves the list as it was
\* and starts no re-fetch.
C26_BackendAuthoritative ==
    [][/\ RequestAnswered => (RequestSucceeded \/ RequestFailed)
       /\ purchases' # purchases =>
             /\ fetchInFlight' = fetchInFlight - 1
             /\ purchases' = << PurchaseOf(serverOrder) >>
       /\ RequestSucceeded =>
             /\ purchases' = purchases
             /\ fetchInFlight' = fetchInFlight + 1
             /\ purchasesLoading'
       /\ RequestFailed =>
             UNCHANGED << purchases, purchasesLoading, fetchInFlight, serverOrder >>]_vars

\* A receive has succeeded and its re-fetch has answered: the list shows the
\* status the backend gave the order.
C26_Witness ==
    /\ purchases # << >>
    /\ StatusIn(purchases) \in { "partial", "received" }
    /\ purchases[1] = PurchaseOf(serverOrder)
    /\ fetchInFlight = 0
    /\ receiveInFlight = << >>
    /\ purchaseRequests > 0
    /\ statusInFlight = << >>

\* ------------------------------------------------ claims on the sold cart
\* C27: a line added to the cart after a sale has succeeded is not removed by
\* the clear that follows that sale: when the clear timer fires right after
\* addToCart has put a new line into the cart, the line stays.
C27_Original ==
    [][(Ran("clearTimer") /\ lastEvent.op = "addToCart" /\ lastEvent.before = 0) =>
          InCart(cart', lastEvent.id)]_vars

\* C28: the lines of a sale that has succeeded cannot be submitted again: when
\* the success of a request is handled with the cart as processSale sent it,
\* Complete Sale is not available on that cart.
C28_Original ==
    [][(Ran("saleSucceeds") /\ lastEvent.op = "processSale") =>
          CompleteSaleDisabled']_vars

\* C29: for every item, Confirm Receipt sends the quantity the Received
\* Quantity field displays.
C29_Original ==
    [][ReceiveSent =>
          \A it \in ItemIds :
              receiveInFlight'[Len(receiveInFlight')].received_quantities[it]
                 = DisplayedQuantity(it)]_vars

\* C30: the cart discount lies in [0, 100], the discount amount never exceeds
\* the subtotal and the grand total is never negative.
C30_Original ==
    /\ discount \in 0..100
    /\ discountAmount <= subtotal * 100
    /\ grandTotal >= 0

====
